---- MODULE Spec2Model ----
(***************************************************************************)
(* State-machine model of the single-page front end static/js/main.js:     *)
(* Firebase auth handlers, hash routing, page-scoped timers, the live      *)
(* video helper, the browser-camera upload loop, the pending-alert list    *)
(* and the siren debounce.  Every "await" of the source is a point where   *)
(* other handlers may run, so each async handler is cut into one action    *)
(* per await.                                                              *)
(***************************************************************************)
EXTENDS Integers, Sequences, FiniteSets, TLC

\* ------------------------------------------------------------------ bounds
MaxHashEvents == 1      \* hashchange events the user lets queue up
MaxVideoEls == 2        \* <img id=videoStream> instances alive at once
MaxEvents == 3          \* pending_detection events per page load
BootTime == 6000        \* Date.now() when the script is loaded
MaxTime == 12000        \* last instant of the modelled clock
CoarseTick == 3000      \* clock step of the full specification
FineTick == 500         \* clock step of the siren specification

\* ------------------------------------------------------- program constants
SIREN_COOLDOWN_MS == 3000
POLL_MS == 2000

HIGH_LABELS == {"weapons", "weapon", "other_coverings", "otherCoverings", "other_Coverings"}

\* ------------------------------------------------------------ environment
NoUser == "null"
NoRole == "null"
NoRef == "null"

\* Accounts of the Firebase project; /users/<uid>.role ("" = no role stored).
Users == {"a1", "p1"}
OtherAdmins == {"a2"}
DbRole(uid) == CASE uid = "a1" -> "admin" [] uid = "p1" -> "personnel" [] OTHER -> ""

\* Element ids the templates of index.html may or may not contain.
Elements == {"siren", "pendingList", "videoStream", "browserCam", "p_browserCam"}
DomConfigs == {Elements, {}}

\* The hashes the user visits (route() knows three more admin pages).
Hashes == {"#/login", "#/admin/dashboard", "#/admin/alerts", "#/personnel/dashboard",
           "#/personnel/settings"}

VARIABLES
  dom,               \* element ids present in the document / templates
  authUser,          \* firebase auth.currentUser
  authQueue,         \* auth state notifications not yet delivered to the listener
  currentUser, currentRole, adminPresenceRef,
  activeAdmins,      \* keys under /activeAdmins in the realtime database
  hash,              \* location.hash
  hashEvents,        \* queued hashchange events
  content,           \* template currently in contentEl
  sidebarVisible, menuToggleVisible,
  pageIntervals,     \* timers created by addInterval and not yet cleared (ids cannot repeat: a set)
  pendingRenders,    \* dashboard render functions awaiting /api/status
  loops,             \* sendFrame loops re-arming themselves with setTimeout
  videoEls,          \* state of each live-video <img>
  curVideo,          \* the <img> of the displayed admin dashboard (0: none)
  inflight,          \* <img>s whose checkAndSwap awaits /api/status
  pendingList,       \* children of #pendingList, first child first
  nextEvent,         \* id of the next pending_detection event
  lastSirenAt,
  lastPayload,       \* argument of the latest maybePlaySiren call
  now,               \* Date.now()
  sirenPlays,        \* Date.now() of every sirenEl.play(), oldest first
  signIn,            \* position of the onAuthStateChanged(user) handler
  signOut,           \* position of the onAuthStateChanged(null) handler
  logout,            \* position of the logout click handler
  emitted            \* requests, plays and console lines of the last step

vars == <<dom, authUser, authQueue, currentUser, currentRole, adminPresenceRef,
          activeAdmins, hash, hashEvents, content, sidebarVisible,
          menuToggleVisible, pageIntervals, pendingRenders, loops, videoEls,
          curVideo, inflight, pendingList, nextEvent, lastSirenAt, lastPayload, now,
          sirenPlays, signIn, signOut, logout, emitted>>

authVars == <<authUser, authQueue>>
sessVars == <<currentUser, currentRole, adminPresenceRef>>
uiVars == <<sidebarVisible, menuToggleVisible>>
hashVars == <<hash, hashEvents>>
pageVars == <<content, pageIntervals, pendingRenders, loops, videoEls, curVideo,
              inflight, pendingList>>
eventVars == <<nextEvent>>
sirenVars == <<lastSirenAt, lastPayload, sirenPlays>>
pcVars == <<signIn, signOut, logout>>

\* ---------------------------------------------------------------- helpers
PLACEHOLDER_SRC == "/static/placeholder.jpg"
LIVE_SRC == "/api/video_feed"
FreshImg == [src |-> PLACEHOLDER_SRC, live |-> "0"]

VideoSlots == 1..MaxVideoEls

\* Everything a replaced contentEl leaves behind belongs to a page that is
\* no longer displayed.
Stale(S) == {[r EXCEPT !.stale = TRUE] : r \in S}

StatusTimer(page, stale) ==
  [kind |-> "status", ms |-> POLL_MS, page |-> page, stale |-> stale, el |-> 0]
VideoTimer(el) ==
  [kind |-> "video", ms |-> POLL_MS, page |-> "adminDashboard", stale |-> FALSE, el |-> el]

\* An <img> nothing refers to any more is forgotten.
Collect(els, cur, fl) ==
  [e \in VideoSlots |-> IF e = cur \/ e \in fl THEN els[e] ELSE FreshImg]

resolveRole(uid) == IF DbRole(uid) = "" THEN "personnel" ELSE DbRole(uid)

\* The page route() renders for a hash and a role, "redirect" when none matches.
RenderTarget(h, role) ==
  CASE h = "#/admin/dashboard" /\ role = "admin" -> "adminDashboard"
    [] h = "#/admin/alerts" /\ role = "admin" -> "adminAlerts"
    [] h = "#/admin/activity" /\ role = "admin" -> "adminActivity"
    [] h = "#/admin/cameras" /\ role = "admin" -> "adminCameras"
    [] h = "#/admin/settings" /\ role = "admin" -> "adminSettings"
    [] h = "#/personnel/dashboard" /\ role = "personnel" -> "personnelDashboard"
    [] h = "#/personnel/settings" /\ role = "personnel" -> "personnelSettings"
    [] OTHER -> "redirect"

DefaultHash(role) == IF role = "admin" THEN "#/admin/dashboard" ELSE "#/personnel/dashboard"

Dashboards == {"adminDashboard", "personnelDashboard"}

\* Payloads of high_threat events and /api/upload_frame responses.
NoDetections == [isArray |-> FALSE, items |-> <<>>]
Detections == {NoDetections} \cup
  [isArray : {TRUE}, items : {<<>>, <<"person">>, <<"", "other_coverings">>}]
NullPayload == [isNull |-> TRUE, label |-> "", detections |-> NoDetections, threatLevel |-> ""]
\* label "" is a payload without label; an item "" a detection without one.
Payloads == {NullPayload} \cup
  [isNull : {FALSE}, label : {"", "weapon", "knife"}, detections : Detections,
   threatLevel : {"high", "low"}]

\* ---------------------------------------------------------------- initial
Init ==
  /\ dom \in DomConfigs
  /\ authUser \in Users \cup {NoUser}
  /\ authQueue = <<authUser>>
  /\ currentUser = NoUser /\ currentRole = NoRole /\ adminPresenceRef = NoRef
  /\ activeAdmins \in SUBSET OtherAdmins
  /\ hash \in Hashes
  /\ hashEvents \in (IF hash = "#/login" THEN {0, 1} ELSE {0})
  /\ content = "login"
  /\ sidebarVisible = FALSE /\ menuToggleVisible = FALSE
  /\ pageIntervals = {}
  /\ pendingRenders = {}
  /\ loops = {}
  /\ videoEls = [e \in VideoSlots |-> FreshImg]
  /\ curVideo = 0
  /\ inflight = {}
  /\ pendingList = <<>>
  /\ nextEvent = 1
  /\ lastSirenAt = 0
  /\ lastPayload = NullPayload
  /\ now = BootTime
  /\ sirenPlays = <<>>
  /\ signIn = [pc |-> "idle", user |-> NoUser]
  /\ signOut = [pc |-> "idle", ref |-> NoRef]
  /\ logout = [pc |-> "idle", ref |-> NoRef]
  /\ emitted = {}

\* ---------------------------------------------------------------- routing
FreeSlots == {e \in VideoSlots : e \notin inflight}
\* The slot of a new <img>: a free one, or else that of a detached <img>
\* whose status response is taken never to arrive.
NewSlot ==
  IF FreeSlots # {} THEN CHOOSE e \in FreeSlots : \A f \in FreeSlots : e <= f ELSE 1

\* showLogin(): clearPageIntervals, hide sidebar and menu toggle, put the
\* login template into contentEl.
showLogin ==
  /\ pageIntervals' = {}
  /\ sidebarVisible' = FALSE
  /\ menuToggleVisible' = FALSE
  /\ content' = "login"
  /\ pendingRenders' = Stale(pendingRenders)
  /\ loops' = Stale(loops)
  /\ pendingList' = <<>>
  /\ curVideo' = 0
  /\ videoEls' = Collect(videoEls, 0, inflight)
  /\ UNCHANGED inflight

\* attachLiveVideo(imgEl) for a freshly rendered admin dashboard: placeholder,
\* live = '0', one immediate checkAndSwap() and the 2000 ms interval.
attachLiveVideo ==
  IF "videoStream" \in dom
  THEN /\ curVideo' = NewSlot
       /\ inflight' = inflight \cup {NewSlot}
       /\ videoEls' = Collect([videoEls EXCEPT ![NewSlot] = FreshImg], NewSlot, inflight \cup {NewSlot})
       /\ pageIntervals' = {VideoTimer(NewSlot)}
  ELSE /\ curVideo' = 0
       /\ videoEls' = Collect(videoEls, 0, inflight)
       /\ pageIntervals' = {}
       /\ UNCHANGED inflight

\* The pages whose render function calls attachLiveVideo.
VideoPages == {"adminDashboard"}

\* The synchronous part of the render function of `page`: the template goes
\* into contentEl; a dashboard then awaits its first /api/status.
Render(page) ==
  /\ content' = page
  /\ pendingList' = <<>>
  /\ loops' = Stale(loops)
  /\ pendingRenders' = Stale(pendingRenders) \cup
       (IF page \in Dashboards THEN {[page |-> page, stale |-> FALSE]} ELSE {})
  /\ IF page \in VideoPages
     THEN attachLiveVideo
     ELSE /\ pageIntervals' = {}
          /\ curVideo' = 0
          /\ videoEls' = Collect(videoEls, 0, inflight)
          /\ UNCHANGED inflight

\* route() as called with currentUser = user and currentRole = role, the
\* sidebar and menu toggle being sb and mt and he hashchange events being
\* queued when it is entered.
route(user, role, sb, mt, he) ==
  IF user = NoUser
  THEN showLogin /\ hash' = hash /\ hashEvents' = he
  ELSE /\ sidebarVisible' = sb
       /\ menuToggleVisible' = mt
       /\ IF RenderTarget(hash, role) = "redirect"
          THEN /\ pageIntervals' = {}
               /\ hash' = DefaultHash(role)
               /\ hashEvents' = IF DefaultHash(role) # hash THEN he + 1 ELSE he
               /\ UNCHANGED <<content, pendingRenders, loops, videoEls, curVideo,
                              inflight, pendingList>>
          ELSE /\ Render(RenderTarget(hash, role))
               /\ hash' = hash
               /\ hashEvents' = he

\* What a call of route() requests: a dashboard asks for /api/status.
routeEmits(user, role) ==
  IF user # NoUser /\ RenderTarget(hash, role) \in Dashboards
  THEN {"GET /api/status"} ELSE {}

\* window 'hashchange' -> route()
HashChange ==
  /\ hashEvents > 0
  /\ route(currentUser, currentRole, sidebarVisible, menuToggleVisible, hashEvents - 1)
  /\ emitted' = routeEmits(currentUser, currentRole)
  /\ UNCHANGED <<dom, authVars, sessVars, activeAdmins, eventVars, sirenVars, now, pcVars>>

\* The user follows a link or edits the address: location.hash changes and a
\* hashchange event is queued.
Navigate(h) ==
  /\ h # hash
  /\ hashEvents < MaxHashEvents
  /\ hash' = h
  /\ hashEvents' = hashEvents + 1
  /\ emitted' = {}
  /\ UNCHANGED <<dom, authVars, sessVars, activeAdmins, uiVars, pageVars, eventVars,
                 sirenVars, now, pcVars>>

\* ------------------------------------------------------------ auth state
Idle == [pc |-> "idle", ref |-> NoRef]

\* The user acts on the session (login form, logout button) only when no
\* auth notification or auth handler is pending.
Settled == authQueue = <<>> /\ signIn.pc = "idle" /\ signOut.pc = "idle"

\* Login form submit: signInWithEmailAndPassword succeeds for user u, or
\* fails and the error is shown with alert().
LoginSubmit(u, ok) ==
  /\ content = "login"
  /\ authUser = NoUser
  /\ Settled /\ logout.pc = "idle"
  /\ hashEvents <= MaxHashEvents
  /\ IF ok
     THEN authUser' = u /\ authQueue' = Append(authQueue, u) /\ emitted' = {}
     ELSE UNCHANGED authVars /\ emitted' = {"alert"}
  /\ UNCHANGED <<dom, sessVars, activeAdmins, hashVars, uiVars, pageVars, eventVars,
                 sirenVars, now, pcVars>>

\* onAuthStateChanged(null), up to the await of adminPresenceRef.remove().
SignedOut ==
  /\ authQueue # <<>> /\ Head(authQueue) = NoUser
  /\ signOut.pc = "idle"
  /\ authQueue' = Tail(authQueue)
  /\ emitted' = {}
  /\ IF adminPresenceRef # NoRef
     THEN /\ signOut' = [pc |-> "remove", ref |-> adminPresenceRef]
          /\ UNCHANGED <<sessVars, uiVars, pageVars>>
     ELSE /\ currentUser' = NoUser
          /\ currentRole' = NoRole
          /\ showLogin
          /\ UNCHANGED <<adminPresenceRef, signOut>>
  /\ UNCHANGED <<dom, authUser, activeAdmins, hashVars, eventVars, sirenVars, now,
                 signIn, logout>>

\* onAuthStateChanged(null) after the await: a failed remove() is swallowed.
SignedOutRemoved(ok) ==
  /\ signOut.pc = "remove"
  /\ signOut' = Idle
  /\ IF ok
     THEN activeAdmins' = activeAdmins \ {signOut.ref} /\ adminPresenceRef' = NoRef
     ELSE UNCHANGED <<activeAdmins, adminPresenceRef>>
  /\ currentUser' = NoUser
  /\ currentRole' = NoRole
  /\ showLogin
  /\ emitted' = {}
  /\ UNCHANGED <<dom, authVars, hashVars, eventVars, sirenVars, now, signIn, logout>>

\* onAuthStateChanged(user), up to the await of resolveRole(user.uid).
SignedIn ==
  /\ authQueue # <<>> /\ Head(authQueue) # NoUser
  /\ signIn.pc = "idle"
  /\ authQueue' = Tail(authQueue)
  /\ currentUser' = Head(authQueue)
  /\ signIn' = [pc |-> "resolveRole", user |-> Head(authQueue)]
  /\ emitted' = {}
  /\ UNCHANGED <<dom, authUser, currentRole, adminPresenceRef, activeAdmins, hashVars,
                 uiVars, pageVars, eventVars, sirenVars, now, signOut, logout>>

SignInIdle == [pc |-> "idle", user |-> NoUser]

\* The tail of the sign-in handler: setSidebarVisible(true),
\* setMenuToggleVisible(true), route().
FinishSignIn(role) ==
  /\ route(currentUser, role, TRUE, TRUE, hashEvents)
  /\ signIn' = SignInIdle

\* resolveRole returned (or the database read failed and the handler ended).
\* A non-admin goes straight to the tail; an admin's presence entry is set.
RoleResolved(ok) ==
  /\ signIn.pc = "resolveRole"
  /\ IF ~ok
     THEN /\ signIn' = SignInIdle
          /\ emitted' = {}
          /\ UNCHANGED <<sessVars, hashVars, uiVars, pageVars>>
     ELSE /\ currentRole' = resolveRole(signIn.user)
          /\ UNCHANGED currentUser
          /\ IF resolveRole(signIn.user) = "admin"
             THEN /\ adminPresenceRef' = signIn.user
                  /\ signIn' = [signIn EXCEPT !.pc = "setPresence"]
                  /\ emitted' = {}
                  /\ UNCHANGED <<hashVars, uiVars, pageVars>>
             ELSE /\ FinishSignIn(resolveRole(signIn.user))
                  /\ emitted' = routeEmits(currentUser, resolveRole(signIn.user))
                  /\ UNCHANGED adminPresenceRef
  /\ UNCHANGED <<dom, authVars, activeAdmins, eventVars, sirenVars, now, signOut, logout>>

\* adminPresenceRef.set(true) returned; onDisconnect().remove() is registered
\* and /api/start_cameras is requested.
PresenceSet(ok) ==
  /\ signIn.pc = "setPresence"
  /\ IF ok
     THEN /\ activeAdmins' = activeAdmins \cup {signIn.user}
          /\ signIn' = [signIn EXCEPT !.pc = "startCameras"]
          /\ emitted' = {"POST /api/start_cameras"}
     ELSE /\ signIn' = SignInIdle
          /\ emitted' = {}
          /\ UNCHANGED activeAdmins
  /\ UNCHANGED <<dom, authVars, sessVars, hashVars, uiVars, pageVars, eventVars,
                 sirenVars, now, signOut, logout>>

StartCamerasFailedAborts ==
  /\ signIn' = SignInIdle
  /\ emitted' = {"error: Could not start cameras"}
  /\ UNCHANGED <<hashVars, uiVars, pageVars>>

\* What the handler does when api('/api/start_cameras') has failed.
StartCamerasFailed ==
  /\ FinishSignIn(currentRole)
  /\ emitted' = {"error: Could not start cameras"} \cup routeEmits(currentUser, currentRole)

\* api('/api/start_cameras') returned: logged either way, then the tail.
CamerasStarted(ok) ==
  /\ signIn.pc = "startCameras"
  /\ IF ok
     THEN /\ FinishSignIn(currentRole)
          /\ emitted' = {"log: Cameras started"} \cup routeEmits(currentUser, currentRole)
     ELSE StartCamerasFailed
  /\ UNCHANGED <<dom, authVars, sessVars, activeAdmins, eventVars, sirenVars, now,
                 signOut, logout>>

\* The server runs the registered onDisconnect().remove() of a signed-in admin.
Disconnected(u) ==
  /\ u \in activeAdmins \cap Users
  /\ activeAdmins' = activeAdmins \ {u}
  /\ emitted' = {}
  /\ UNCHANGED <<dom, authVars, sessVars, hashVars, uiVars, pageVars, eventVars,
                 sirenVars, now, pcVars>>

\* Another client's admin signs in or leaves.
OtherAdmin(a) ==
  /\ activeAdmins' = (IF a \in activeAdmins THEN activeAdmins \ {a} ELSE activeAdmins \cup {a})
  /\ emitted' = {}
  /\ UNCHANGED <<dom, authVars, sessVars, hashVars, uiVars, pageVars, eventVars,
                 sirenVars, now, pcVars>>

\* ----------------------------------------------------------------- logout
\* auth.signOut() and the handler's last lines (the menu toggle is hidden).
doSignOut ==
  /\ authUser' = NoUser
  /\ authQueue' = IF authUser # NoUser THEN Append(authQueue, NoUser) ELSE authQueue
  /\ menuToggleVisible' = FALSE
  /\ logout' = Idle
  /\ UNCHANGED sidebarVisible

\* Click on #logoutBtn (a button of the sidebar), up to the handler's first
\* await.
LogoutClick ==
  /\ logout.pc = "idle"
  /\ sidebarVisible
  /\ Settled
  /\ emitted' = {}
  /\ IF currentRole = "admin"
     THEN /\ logout' = (IF adminPresenceRef # NoRef
                        THEN [pc |-> "remove", ref |-> adminPresenceRef]
                        ELSE [pc |-> "get", ref |-> NoRef])
          /\ UNCHANGED <<authVars, uiVars>>
     ELSE doSignOut
  /\ UNCHANGED <<dom, sessVars, activeAdmins, hashVars, pageVars, eventVars, sirenVars,
                 now, signIn, signOut>>

\* adminPresenceRef.remove() returned; a failure skips to auth.signOut().
LogoutRemoved(ok) ==
  /\ logout.pc = "remove"
  /\ IF ok
     THEN /\ activeAdmins' = activeAdmins \ {logout.ref}
          /\ adminPresenceRef' = NoRef
          /\ logout' = [pc |-> "get", ref |-> NoRef]
          /\ UNCHANGED <<authVars, uiVars>>
     ELSE /\ doSignOut
          /\ UNCHANGED <<activeAdmins, adminPresenceRef>>
  /\ emitted' = (IF ok THEN {} ELSE {"caught: presence remove failed"})
  /\ UNCHANGED <<dom, currentUser, currentRole, hashVars, pageVars, eventVars, sirenVars,
                 now, signIn, signOut>>

StopAlways(snapshot) == TRUE

\* Whether the handler asks for /api/stop_cameras, given the snapshot of
\* /activeAdmins it has read.
StopWanted(snapshot) == snapshot = {}

\* rtdb.ref('/activeAdmins').get() returned; without an entry the cameras
\* are stopped, a failed read skips to auth.signOut().
LogoutSnapshot(ok) ==
  /\ logout.pc = "get"
  /\ IF ok /\ StopWanted(activeAdmins)
     THEN /\ logout' = [pc |-> "stop", ref |-> NoRef]
          /\ emitted' = {"POST /api/stop_cameras"}
          /\ UNCHANGED <<authVars, uiVars>>
     ELSE /\ doSignOut
          /\ emitted' = (IF ok THEN {} ELSE {"caught: /activeAdmins read failed"})
  /\ UNCHANGED <<dom, sessVars, activeAdmins, hashVars, pageVars, eventVars, sirenVars,
                 now, signIn, signOut>>

\* api('/api/stop_cameras') returned: logged either way.
CamerasStopped(ok) ==
  /\ logout.pc = "stop"
  /\ doSignOut
  /\ emitted' = (IF ok THEN {"log: Cameras stopped (last admin logged out)"}
                 ELSE {"error: Could not stop cameras"})
  /\ UNCHANGED <<dom, sessVars, activeAdmins, hashVars, pageVars, eventVars, sirenVars,
                 now, signIn, signOut>>

\* ------------------------------------------------------------------ siren
\* The payloads of the full specification: one of each outcome.
MainPayloads == {NullPayload,
  [isNull |-> FALSE, label |-> "weapon", detections |-> NoDetections, threatLevel |-> "high"],
  [isNull |-> FALSE, label |-> "knife", detections |-> NoDetections, threatLevel |-> "high"]}

isHighByThreatLevel(payload) == ~payload.isNull /\ payload.threatLevel = "high"

isHigh(payload) ==
  IF ~payload.isNull /\ payload.label # "" /\ payload.label \in HIGH_LABELS
  THEN TRUE
  ELSE IF ~payload.isNull /\ payload.detections.isArray
       THEN \E i \in 1..Len(payload.detections.items) :
              /\ payload.detections.items[i] # ""
              /\ payload.detections.items[i] \in HIGH_LABELS
       ELSE FALSE

CoolingDownInSeconds == now - lastSirenAt < SIREN_COOLDOWN_MS \div 1000

CoolingDown == now - lastSirenAt < SIREN_COOLDOWN_MS

\* Whether maybePlaySiren(payload) reaches sirenEl.play().
Plays(payload) == "siren" \in dom /\ isHigh(payload) /\ ~CoolingDown

maybePlaySirenRestamps(payload) ==
  /\ lastPayload' = payload
  /\ IF "siren" \in dom /\ isHigh(payload)
     THEN /\ lastSirenAt' = now
          /\ sirenPlays' = (IF CoolingDown THEN sirenPlays ELSE Append(sirenPlays, now))
     ELSE UNCHANGED <<lastSirenAt, sirenPlays>>

maybePlaySiren(payload) ==
  /\ lastPayload' = payload
  /\ IF Plays(payload)
     THEN lastSirenAt' = now /\ sirenPlays' = Append(sirenPlays, now)
     ELSE UNCHANGED <<lastSirenAt, sirenPlays>>

sirenEmits(payload) == IF Plays(payload) THEN {"siren.play"} ELSE {}

\* socket.on('high_threat')
HighThreat(payload) ==
  /\ maybePlaySiren(payload)
  /\ emitted' = {"on high_threat"} \cup sirenEmits(payload)
  /\ UNCHANGED <<dom, authVars, sessVars, activeAdmins, hashVars, uiVars, pageVars,
                 eventVars, now, pcVars>>

\* One run of sendFrame of a started browser camera: nothing is sent while the
\* video has no data; a response goes to maybePlaySiren, a failure to the
\* console; setTimeout(sendFrame, 1000) re-arms it in every case.
SendFrame(l, ready, ok, res) ==
  /\ l \in loops
  /\ IF ready /\ ok
     THEN /\ maybePlaySiren(res)
          /\ emitted' = {"POST /api/upload_frame", "upload_frame response"} \cup sirenEmits(res)
     ELSE /\ UNCHANGED sirenVars
          /\ emitted' = (IF ready THEN {"POST /api/upload_frame", "error: upload_frame failed"}
                         ELSE {})
  /\ UNCHANGED <<dom, authVars, sessVars, activeAdmins, hashVars, uiVars, pageVars,
                 eventVars, now, pcVars>>

Tick(d) ==
  /\ now + d <= MaxTime
  /\ now' = now + d
  /\ emitted' = {}
  /\ UNCHANGED <<dom, authVars, sessVars, activeAdmins, hashVars, uiVars, pageVars,
                 eventVars, sirenVars, pcVars>>

\* ------------------------------------------------------- dashboards, video
BrowserCamId(page) == IF page = "adminDashboard" THEN "browserCam" ELSE "p_browserCam"

\* Whether a render function resumes after a failed first /api/status.
ResumesAfter(ok) == ok

\* A dashboard render resumes after its first /api/status: a failure throws
\* out of the render function; otherwise the 2000 ms status poll is added and,
\* when the document holds the browser camera element, startBrowserCamera
\* starts the upload loop once getUserMedia (cam) succeeds.
RenderResumed(r, ok, cam) ==
  /\ r \in pendingRenders
  /\ pendingRenders' = pendingRenders \ {r}
  /\ emitted' = {}
  /\ IF ResumesAfter(ok)
     THEN /\ pageIntervals' = pageIntervals \cup {StatusTimer(r.page, r.stale)}
          /\ loops' = (IF content = r.page /\ BrowserCamId(r.page) \in dom /\ cam
                       THEN loops \cup {[page |-> r.page, stale |-> FALSE]}
                       ELSE loops)
     ELSE UNCHANGED <<pageIntervals, loops>>
  /\ UNCHANGED <<dom, authVars, sessVars, activeAdmins, hashVars, uiVars, content,
                 videoEls, curVideo, inflight, pendingList, eventVars, sirenVars, now,
                 pcVars>>

\* A status interval fires: /api/status is requested and the pills are
\* refreshed; a failure is swallowed.
StatusPoll(t) ==
  /\ t \in pageIntervals /\ t.kind = "status"
  /\ emitted' = {"GET /api/status"}
  /\ UNCHANGED <<dom, authVars, sessVars, activeAdmins, hashVars, uiVars, pageVars,
                 eventVars, sirenVars, now, pcVars>>

\* The live-video interval fires: checkAndSwap requests /api/status.
VideoPoll(t) ==
  /\ t \in pageIntervals /\ t.kind = "video"
  /\ inflight' = inflight \cup {t.el}
  /\ emitted' = {"GET /api/status"}
  /\ UNCHANGED <<dom, authVars, sessVars, activeAdmins, hashVars, uiVars, content,
                 pageIntervals, pendingRenders, loops, videoEls, curVideo, pendingList,
                 eventVars, sirenVars, now, pcVars>>

\* Number(data.camerasActive || 0): -1 stands for a value that is neither
\* positive nor zero.
ActiveCounts == {-1, 0, 1, 2}

\* The <img> after checkAndSwap has read `active` cameras.
Swapped(img, active) ==
  IF active > 0 /\ img.live # "1" THEN [src |-> LIVE_SRC, live |-> "1"]
  ELSE IF active = 0 /\ img.live # "0" THEN [src |-> PLACEHOLDER_SRC, live |-> "0"]
  ELSE img

FallsBackAfterPollFailure(img) == [src |-> PLACEHOLDER_SRC, live |-> "0"]

\* The <img> after a failed status poll.
AfterPollFailure(img) == img

\* checkAndSwap resumes for <img> e, with the status or with a failure.
CheckAndSwapped(e, ok, active) ==
  /\ e \in inflight
  /\ inflight' = inflight \ {e}
  /\ LET img == IF ok THEN Swapped(videoEls[e], active) ELSE AfterPollFailure(videoEls[e]) IN
     /\ videoEls' = [videoEls EXCEPT ![e] = img]
     /\ emitted' = (IF img.src # videoEls[e].src THEN {"GET " \o img.src} ELSE {})
                     \cup (IF ok THEN {} ELSE {"debug: status poll failed"})
  /\ UNCHANGED <<dom, authVars, sessVars, activeAdmins, hashVars, uiVars, content,
                 pageIntervals, pendingRenders, loops, curVideo, pendingList, eventVars,
                 sirenVars, now, pcVars>>

\* imgEl.onerror: a live <img> falls back to the placeholder.
ImgError(e) ==
  /\ e = curVideo \/ e \in inflight
  /\ videoEls[e].live = "1"
  /\ videoEls' = [videoEls EXCEPT ![e] = [src |-> PLACEHOLDER_SRC, live |-> "0"]]
  /\ emitted' = {"GET " \o PLACEHOLDER_SRC}
  /\ UNCHANGED <<dom, authVars, sessVars, activeAdmins, hashVars, uiVars, content,
                 pageIntervals, pendingRenders, loops, curVideo, inflight, pendingList,
                 eventVars, sirenVars, now, pcVars>>

\* ---------------------------------------------------------- pending alerts
\* document.getElementById('pendingList') finds the list of the alerts page.
ListPresent == content = "adminAlerts" /\ "pendingList" \in dom

Item(id) == [id |-> id, buttons |-> {"Verify", "Dismiss"}]

renderPendingAppends(id) == IF ListPresent THEN Append(pendingList, Item(id)) ELSE pendingList

\* renderPending(payload): the children of #pendingList afterwards.
renderPending(id) == IF ListPresent THEN <<Item(id)>> \o pendingList ELSE pendingList

\* socket.on('pending_detection'); the payload carries a non-empty
\* detections array, as renderPending and its buttons read it unguarded.
PendingDetection ==
  /\ nextEvent <= MaxEvents
  /\ nextEvent' = nextEvent + 1
  /\ pendingList' = (IF hash = "#/admin/alerts" THEN renderPending(nextEvent) ELSE pendingList)
  /\ emitted' = {}
  /\ UNCHANGED <<dom, authVars, sessVars, activeAdmins, hashVars, uiVars, content,
                 pageIntervals, pendingRenders, loops, videoEls, curVideo, inflight,
                 sirenVars, now, pcVars>>

Without(seq, i) == [j \in 1..(Len(seq) - 1) |-> IF j < i THEN seq[j] ELSE seq[j + 1]]

\* Verify or Dismiss of item i: /api/alerts/resolve, then item.remove();
\* a failed request throws before the item is removed.
Resolve(i, ok) ==
  /\ i \in 1..Len(pendingList)
  /\ pendingList' = (IF ok THEN Without(pendingList, i) ELSE pendingList)
  /\ emitted' = {"POST /api/alerts/resolve"}
  /\ UNCHANGED <<dom, authVars, sessVars, activeAdmins, hashVars, uiVars, content,
                 pageIntervals, pendingRenders, loops, videoEls, curVideo, inflight,
                 eventVars, sirenVars, now, pcVars>>

\* ------------------------------------------------------------ page unload
\* 'beforeunload' of an admin followed by a reload of the page: the presence
\* removal that was started may or may not reach the database (gone), the
\* beacon after the await may or may not be sent (beacon); every script
\* variable starts anew, the auth session, the database and the URL persist.
BeforeUnload(gone, beacon) ==
  /\ currentRole = "admin" \/ (~gone /\ ~beacon)
  /\ adminPresenceRef = NoRef => (~gone /\ beacon = (currentRole = "admin"))
  /\ activeAdmins' = (IF gone THEN activeAdmins \ {adminPresenceRef} ELSE activeAdmins)
  /\ emitted' = {"beforeunload"} \cup (IF beacon THEN {"POST /api/check_stop_cameras"} ELSE {})
  /\ authQueue' = <<authUser>>
  /\ currentUser' = NoUser /\ currentRole' = NoRole /\ adminPresenceRef' = NoRef
  /\ hashEvents' = 0
  /\ content' = "login"
  /\ sidebarVisible' = FALSE /\ menuToggleVisible' = FALSE
  /\ pageIntervals' = {} /\ pendingRenders' = {} /\ loops' = {}
  /\ videoEls' = [e \in VideoSlots |-> FreshImg]
  /\ curVideo' = 0 /\ inflight' = {}
  /\ pendingList' = <<>>
  /\ lastSirenAt' = 0 /\ sirenPlays' = <<>> /\ lastPayload' = lastPayload
  /\ signIn' = SignInIdle /\ signOut' = Idle /\ logout' = Idle
  /\ UNCHANGED <<dom, authUser, hash, nextEvent, now>>

\* ------------------------------------------------------------ specification
\* Authentication, presence, logout, routing and page unload.
NextCore ==
  \/ HashChange
  \/ \E h \in Hashes : Navigate(h)
  \/ \E u \in Users, ok \in BOOLEAN : LoginSubmit(u, ok)
  \/ SignedOut
  \/ \E ok \in BOOLEAN : SignedOutRemoved(ok)
  \/ SignedIn
  \/ \E ok \in BOOLEAN : RoleResolved(ok)
  \/ \E ok \in BOOLEAN : PresenceSet(ok)
  \/ \E ok \in BOOLEAN : CamerasStarted(ok)
  \/ \E u \in Users : Disconnected(u)
  \/ \E a \in OtherAdmins : OtherAdmin(a)
  \/ LogoutClick
  \/ \E ok \in BOOLEAN : LogoutRemoved(ok)
  \/ \E ok \in BOOLEAN : LogoutSnapshot(ok)
  \/ \E ok \in BOOLEAN : CamerasStopped(ok)
  \/ \E gone \in BOOLEAN, beacon \in BOOLEAN : BeforeUnload(gone, beacon)

\* The dashboards' first status request and their status interval.
NextTimers ==
  \/ \E r \in pendingRenders, ok \in BOOLEAN, cam \in BOOLEAN : RenderResumed(r, ok, cam)
  \/ \E t \in pageIntervals : StatusPoll(t)

\* The live video helper.
NextVideo ==
  \/ \E t \in pageIntervals : VideoPoll(t)
  \/ \E e \in VideoSlots, ok \in BOOLEAN, active \in ActiveCounts : CheckAndSwapped(e, ok, active)
  \/ \E e \in VideoSlots : ImgError(e)

\* The pending list of the alerts page.
NextPending ==
  \/ PendingDetection
  \/ \E i \in 1..MaxEvents, ok \in BOOLEAN : Resolve(i, ok)

\* Everything that reaches maybePlaySiren, with payloads from P.
NextSiren(P) ==
  \/ \E p \in P : HighThreat(p)
  \/ \E l \in loops, ready \in BOOLEAN : SendFrame(l, ready, FALSE, NullPayload)
  \/ \E l \in loops, res \in P : SendFrame(l, TRUE, TRUE, res)

Next ==
  \/ NextCore
  \/ NextTimers
  \/ NextVideo
  \/ NextPending
  \/ NextSiren(MainPayloads)
  \/ Tick(CoarseTick)

Spec == Init /\ [][Next]_vars

\* The session, routing and live-video part of the program.
NextAuth == NextCore \/ NextVideo
AuthSpec == Init /\ [][NextAuth]_vars

\* The session, routing and dashboard-timer part of the program.
NextPages == NextCore \/ NextTimers
TimerSpec == Init /\ [][NextPages]_vars

\* The session, routing and pending-alert part of the program.
NextAlerts == NextCore \/ NextPending
AlertsSpec == Init /\ [][NextAlerts]_vars

\* The siren while a personnel dashboard stays displayed: the state the
\* program is in once p1 has signed in and the dashboard has been rendered
\* (with its upload loop when the template holds #p_browserCam), then
\* high_threat events, upload responses and the clock.
SirenInit ==
  /\ dom \in DomConfigs
  /\ authUser = "p1"
  /\ authQueue = <<>>
  /\ currentUser = "p1" /\ currentRole = "personnel" /\ adminPresenceRef = NoRef
  /\ activeAdmins = {}
  /\ hash = "#/personnel/dashboard"
  /\ hashEvents = 0
  /\ content = "personnelDashboard"
  /\ sidebarVisible = TRUE /\ menuToggleVisible = TRUE
  /\ pageIntervals = {StatusTimer("personnelDashboard", FALSE)}
  /\ pendingRenders = {}
  /\ loops = (IF "p_browserCam" \in dom THEN {[page |-> "personnelDashboard", stale |-> FALSE]} ELSE {})
  /\ videoEls = [e \in VideoSlots |-> FreshImg]
  /\ curVideo = 0
  /\ inflight = {}
  /\ pendingList = <<>>
  /\ nextEvent = 1
  /\ lastSirenAt = 0
  /\ lastPayload = NullPayload
  /\ now = BootTime
  /\ sirenPlays = <<>>
  /\ signIn = SignInIdle
  /\ signOut = Idle
  /\ logout = Idle
  /\ emitted = {}

NextSirenOnly == NextSiren(Payloads) \/ Tick(FineTick)
SirenSpec == SirenInit /\ [][NextSirenOnly]_vars

\* ================================================================ claims
StopRequest == "POST /api/stop_cameras"
StartFailure == "error: Could not start cameras"
PollFailure == "debug: status poll failed"
SirenPlay == "siren.play"

\* ---- C3 (TimerSpec) -------------------------------------------------------
\* C3: after route() or showLogin() has run, every timer that is still active
\* (status-poll intervals, live-video poll, frame-upload loop) was started by
\* the page that is currently displayed.
C3_NoTimerOutlivesItsPage ==
  /\ \A t \in pageIntervals : t.page = content
  /\ \A l \in loops : l.page = content

\* ---- C4 (TimerSpec) -------------------------------------------------------
\* The displayed page is the dashboard route() renders for the current hash and
\* role, no navigation is queued and its render function is not awaiting its
\* first /api/status any more.
DashboardDisplayed ==
  /\ currentUser # NoUser
  /\ content \in Dashboards
  /\ content = RenderTarget(hash, currentRole)
  /\ hashEvents = 0
  /\ [page |-> content, stale |-> FALSE] \notin pendingRenders

\* C4: while the admin or the personnel dashboard is displayed, a 2000 ms
\* interval of that page keeps requesting /api/status, whatever polls failed.
C4_DashboardKeepsPolling ==
  DashboardDisplayed => \E t \in pageIntervals : ~t.stale /\ t.ms = 2000

\* ---- C5 (AuthSpec) --------------------------------------------------------
\* C5: while the signed-in user's role is 'personnel' no live video is
\* attached: the displayed page has no live <img>, no live-video poll runs
\* and no /api/video_feed request is made.
C5_NoVideoForPersonnel ==
  currentRole = "personnel" =>
    /\ curVideo = 0
    /\ \A t \in pageIntervals : t.kind # "video"
    /\ "GET /api/video_feed" \notin emitted

\* ---- C6 (AuthSpec) --------------------------------------------------------
\* The step is the logout handler resuming with its read of /activeAdmins.
SnapshotStep == logout.pc = "get" /\ logout'.pc # "get" /\ "beforeunload" \notin emitted'

\* C6 as stated: /api/stop_cameras is requested only by an admin's logout,
\* where it is requested if and only if /activeAdmins has no entry left
\* once the admin's own entry is removed.
C6_StopIffNoAdminLeft ==
  [][/\ StopRequest \in emitted' => SnapshotStep /\ currentRole = "admin"
     /\ SnapshotStep => (StopRequest \in emitted' <=> activeAdmins = {})]_vars

\* C6 as amended: /api/stop_cameras is requested only by an admin's logout,
\* where it is requested if and only if the read of /activeAdmins that
\* follows the removal of the admin's own entry succeeds and shows no entry.
C6_StopIffSnapshotEmpty ==
  [][/\ StopRequest \in emitted' =>
          SnapshotStep /\ currentRole = "admin" /\ adminPresenceRef = NoRef
     /\ SnapshotStep =>
          (StopRequest \in emitted' <=>
             activeAdmins = {} /\ "caught: /activeAdmins read failed" \notin emitted')]_vars

C6_Witness ==
  /\ StopRequest \in emitted
  /\ logout.pc = "stop"
  /\ currentRole = "admin"
  /\ activeAdmins = {}
  /\ adminPresenceRef = NoRef

\* ---- C7 (AuthSpec) --------------------------------------------------------
\* The sign-in handler has ended as after a successful request: no second
\* request, sidebar and menu toggle visible, page intervals cleared and the
\* page of the current hash rendered (or the hash redirected).
SignInTailRan ==
  /\ signIn.pc = "startCameras" /\ signIn'.pc = "idle"
  /\ "POST /api/start_cameras" \notin emitted'
  /\ \A t \in pageIntervals' : t.kind # "status"
  /\ IF currentUser = NoUser
     THEN content' = "login"
     ELSE /\ sidebarVisible' /\ menuToggleVisible'
          /\ IF RenderTarget(hash, currentRole) = "redirect"
             THEN hash' = "#/admin/dashboard" /\ hashEvents' = hashEvents + 1
             ELSE content' = RenderTarget(hash, currentRole) /\ hash' = hash

\* C7: a failed /api/start_cameras is only logged: it is not retried and the
\* sign-in completes exactly as after a successful request.
C7_FailedStartStillSignsIn == [][(StartFailure \in emitted') => SignInTailRan]_vars

C7_Witness ==
  /\ StartFailure \in emitted
  /\ signIn.pc = "idle"
  /\ currentRole = "admin"
  /\ sidebarVisible /\ menuToggleVisible
  /\ content = "adminDashboard"

\* ---- C10 (AuthSpec) -------------------------------------------------------
\* C10: a failed status poll of attachLiveVideo changes no <img>: neither src
\* nor the live flag, and nothing is requested for it; the failure is logged.
C10_FailedPollLeavesImage ==
  [][(PollFailure \in emitted') => (videoEls' = videoEls /\ emitted' = {PollFailure})]_vars

C10_Witness ==
  /\ PollFailure \in emitted
  /\ curVideo # 0
  /\ videoEls[curVideo] = [src |-> "/api/video_feed", live |-> "1"]

\* ---- C2 (AlertsSpec) ------------------------------------------------------
\* C2: a pending_detection event puts an item with a Verify and a Dismiss
\* button on top of the pending list if and only if location.hash is
\* '#/admin/alerts' and the list of the alerts page is present when it is
\* received; otherwise it adds nothing, and no other step ever adds an item.
C2_PendingOnlyOnAlertsPage ==
  [][/\ nextEvent' = nextEvent + 1 =>
          pendingList' =
            IF hash = "#/admin/alerts" /\ content = "adminAlerts" /\ "pendingList" \in dom
            THEN <<[id |-> nextEvent, buttons |-> {"Verify", "Dismiss"}]>> \o pendingList
            ELSE pendingList
     /\ nextEvent' = nextEvent =>
          \A i \in 1..Len(pendingList') : \E j \in 1..Len(pendingList) :
             pendingList'[i] = pendingList[j]]_vars

\* The third event on top of the first; the second was dropped or resolved.
C2_Witness ==
  /\ Len(pendingList) = 2
  /\ pendingList[1].id = 3
  /\ pendingList[2].id = 1

\* ---- C1, C8, C9 (SirenSpec) -----------------------------------------------
HighThreatLabels ==
  {"weapons", "weapon", "other_coverings", "otherCoverings", "other_Coverings"}

\* The payload carries a high-threat label, as its own label or as the label
\* of one of its detections.
CarriesHighLabel(p) ==
  /\ ~p.isNull
  /\ \/ p.label \in HighThreatLabels
     \/ /\ p.detections.isArray
        /\ \E i \in 1..Len(p.detections.items) : p.detections.items[i] \in HighThreatLabels

\* No siren was played in the preceding 3000 ms.
Quiet == sirenPlays = <<>> \/ now - sirenPlays[Len(sirenPlays)] >= 3000

C8_PlaysApart ==
  \A i, j \in 1..Len(sirenPlays) : i < j => sirenPlays[j] - sirenPlays[i] >= 3000

C8_Witness ==
  /\ Len(sirenPlays) >= 2
  /\ sirenPlays[2] - sirenPlays[1] = 3000

\* C9: lastSirenAt changes only when a play is started, so a payload with a
\* high-threat label that arrives 3000 ms or more after the last started play
\* starts a play, whatever arrived in between.
C9_SuppressedDoNotExtend ==
  [][/\ lastSirenAt' # lastSirenAt => SirenPlay \in emitted' /\ lastSirenAt' = now
     /\ ({"on high_threat", "upload_frame response"} \cap emitted' # {}
           /\ CarriesHighLabel(lastPayload')
           /\ sirenPlays # <<>> /\ now - sirenPlays[Len(sirenPlays)] >= 3000)
          => SirenPlay \in emitted' /\ lastSirenAt' = now]_vars

\* A play started by an upload response exactly 3000 ms after the previous one.
C9_Witness ==
  /\ "upload_frame response" \in emitted
  /\ SirenPlay \in emitted
  /\ Len(sirenPlays) >= 2
  /\ now - sirenPlays[Len(sirenPlays) - 1] = 3000

====
